---- MODULE Spec2Model ----
(***************************************************************************)
(* Debt / ledger consistency of the back-office API: the debtor routes     *)
(* (routes/debtorRoutes.js) and the transaction routes (cash-in, cash-out, *)
(* edit, delete) acting on the Client, Debtor and Transaction collections. *)
(*                                                                         *)
(* Every handler is one action: a request runs to its response without     *)
(* another request in between.  Dates, descriptions, nextPayment and       *)
(* createdBy are not part of the state: no handler reads them back to      *)
(* decide a write of debt, currentDebt, totalPaid or the ledger.           *)
(* Request bodies carry currentDebt / initialDebt of Create Debt as JSON   *)
(* numbers.                                                                *)
(***************************************************************************)
EXTENDS Integers, Sequences, FiniteSets, TLC

(* ---------------------------- bounds ----------------------------------- *)
\* Requests to the debtor routes in one behaviour.
MaxOps == 4
\* Requests to the transaction routes in one behaviour.
MaxCashOps == 3
\* Debtor documents created in one behaviour.
MaxDebtors == 2
\* Ledger entries created in one behaviour.
MaxTx == 2
\* Largest amount a request carries.
MaxAmount == 2
\* Ledger entries on file when a report is asked for.
MaxStatEntries == 2
\* Requests of one run in which the database may refuse a ledger entry.
MaxFaultOps == 3
\* Requests of one run over all six financial handlers.
MaxAllOps == 2
\* Requests of one run in which two requests may overlap.
MaxRaceOps == 3
\* Stored documents and requests of one run of the reporting views.
MaxViewEntries == 1
MaxViewOps == 2
\* Requests of one run in which a request may come without a bearer token.
MaxAuthOps == 2
\* Largest limit a search request asks for, and the products a search matches.
MaxLimitQuery == 51
MaxProducts == 3
MaxPayOps == 4
MaxPartialOps == 3
MaxSettleOps == 4
MaxLedgerOps == 3
MaxMoveOps == 3

(* ---------------------------- identities ------------------------------- *)
\* The clients that exist in the Client collection.
ClientIds == {1, 2}
\* A well-formed id that resolves to no Client document.
GhostClient == 3
\* The request names no client (undefined / null).
NoClient == 0

VARIABLES clients, debtors, ledger, nextTx, res, ops, flight
vars == <<clients, debtors, ledger, nextTx, res, ops, flight>>

(* ---------------------------- JSON values ------------------------------ *)
Num(n) == [t |-> "num", v |-> n]
NumStr(n) == [t |-> "numstr", v |-> n]
Str == [t |-> "str", v |-> 0]
Absent == [t |-> "absent", v |-> 0]

Amounts == {0 - 1, 0, 1, MaxAmount}
\* Payments of Pay Debt: negative, zero, positive, a numeric string, a value
\* that is no number and no payment at all.
JsonAmounts == {Num(0 - 1), Num(0), Num(1), Num(MaxAmount), NumStr(1), Str, Absent}
\* Amounts of the transaction routes: negative, zero, positive, a numeric
\* string and a value that is no number.
CashAmounts == {Num(0 - 1), Num(0), Num(1), NumStr(MaxAmount), Absent}

\* `Number(amount) || 0`: a number or a numeric string gives its value,
\* anything else gives NaN and NaN || 0 is 0.
NumberOrZero(x) == IF x.t \in {"num", "numstr"} THEN x.v ELSE 0

\* `!payment || typeof payment !== "number"`
PaymentRejected(x) == (x.t = "absent") \/ (x.t = "num" /\ x.v = 0) \/ (x.t # "num")

Max(a, b) == IF a >= b THEN a ELSE b

(* ---------------------------- Transaction schema ----------------------- *)
PaymentTypes == {"cash", "card", "debt"}
TxTypes == {"cash-in", "cash-out", "order", "debt-payment", "debt-created"}

TransactionValidNoMin(e) ==
  /\ e.type \in TxTypes
  /\ e.paymentType \in PaymentTypes

\* Mongoose validation of a Transaction document on create / save.
TransactionValid(e) ==
  /\ e.type \in TxTypes
  /\ e.amount >= 0
  /\ e.paymentType \in PaymentTypes

Entry(id, type, amount, paymentType, client, relatedId) ==
  [id |-> id, type |-> type, amount |-> amount, paymentType |-> paymentType,
   client |-> client, relatedId |-> relatedId, isDeleted |-> FALSE]

(* ---------------------------- queries ---------------------------------- *)
FindDebtorAnyState(id) == id \in 1 .. Len(debtors)

\* Debtor.findOne({_id: id, isDeleted: false})
FindDebtor(id) == id \in 1 .. Len(debtors) /\ ~debtors[id].isDeleted

\* Client.findById(c)
ClientExists(c) == c \in ClientIds

RECURSIVE SumDebtsWithDeleted(_, _, _)
SumDebtsWithDeleted(ds, c, n) ==
  IF n = 0 THEN 0
  ELSE SumDebtsWithDeleted(ds, c, n - 1) +
       (IF ds[n].client = c THEN ds[n].currentDebt ELSE 0)

RECURSIVE SumDebts(_, _, _)
\* Sum of currentDebt over Debtor.find({client: c, isDeleted: false}),
\* taken over the first n documents of ds.
SumDebts(ds, c, n) ==
  IF n = 0 THEN 0
  ELSE SumDebts(ds, c, n - 1) +
       (IF ds[n].client = c /\ ~ds[n].isDeleted THEN ds[n].currentDebt ELSE 0)

TotalDebt(ds, c) == SumDebts(ds, c, Len(ds))

\* Position of the ledger entry with the given id, 0 when there is none.
TxIndex(id) ==
  IF \E i \in 1 .. Len(ledger) : ledger[i].id = id
  THEN CHOOSE i \in 1 .. Len(ledger) : ledger[i].id = id
  ELSE 0

RemoveAt(s, i) == [j \in 1 .. (Len(s) - 1) |-> IF j < i THEN s[j] ELSE s[j + 1]]

Response(op, status, id, client, amount) ==
  [op |-> op, status |-> status, id |-> id, client |-> client, amount |-> amount]

(* ---------------------------- requests in flight ----------------------- *)
\* Requests the server may be handling at the same time.
Procs == {1, 2}

\* A handler that is not running.  A running handler holds its position (pc),
\* its request (op, id, payment, client) and what it read or computed in
\* memory: the debtor fields it is about to save, the client's debt as
\* Client.findById returned it, and the id of the Transaction document its
\* Transaction.create resolved with (0 while there is none).
Idle ==
  [pc |-> "idle", op |-> "none", id |-> 0, payment |-> 0, client |-> NoClient,
   currentDebt |-> 0, totalPaid |-> 0, lastPayment |-> 0, debt |-> 0, entry |-> 0]

(* ---------------------------- initial state ---------------------------- *)
Init ==
  /\ clients = [c \in ClientIds |-> 0]
  /\ debtors = <<>>
  /\ ledger = <<>>
  /\ nextTx = 1
  /\ res = Response("none", 0, 0, NoClient, 0)
  /\ ops = 0
  /\ flight = [p \in Procs |-> Idle]

(* ---------------------------- Debtor schema ---------------------------- *)
\* A Debtor document as `new Debtor({...})` stores it: the fields the handler
\* passes, and the schema's defaults for the others.  deletedAt is "none"
\* until a date is stored in it ("set").
NewDebtor(client, currentDebt, initialDebt) ==
  [client |-> client, currentDebt |-> currentDebt, initialDebt |-> initialDebt,
   totalPaid |-> 0, lastPayment |-> 0, status |-> "pending", isDeleted |-> FALSE,
   deletedAt |-> "none"]

(* ---------------------------- Create Debt ------------------------------ *)
DebtAfterCreateReplaced(debt, currentDebt) == currentDebt

\* `(clientDoc.debt || 0) + (currentDebt || 0)`
DebtAfterCreate(debt, currentDebt) == debt + currentDebt

CreateDebtWithUncaught(client, cd, idebt, stored) ==
  IF client = NoClient \/ cd.t \notin {"num", "numstr"}
     \/ idebt.t \notin {"num", "numstr", "absent"}
  THEN /\ res' = Response("CreateDebt", 400, 0, NoClient, 0)
       /\ UNCHANGED <<clients, debtors, ledger, nextTx>>
  ELSE IF ~ClientExists(client)
  THEN /\ res' = Response("CreateDebt", 404, 0, NoClient, 0)
       /\ UNCHANGED <<clients, debtors, ledger, nextTx>>
  ELSE LET currentDebt == cd.v
           initialDebt == IF idebt.t = "absent" THEN currentDebt ELSE idebt.v
           debtor == NewDebtor(client, currentDebt, initialDebt)
           id == Len(debtors) + 1
           e == Entry(nextTx, "debt-created", currentDebt, "debt", client, id)
       IN /\ debtors' = Append(debtors, debtor)
          /\ IF TransactionValid(e) /\ stored
             THEN /\ ledger' = Append(ledger, e) /\ nextTx' = nextTx + 1
                  /\ clients' = [clients EXCEPT ![client] = clients[client] + currentDebt]
                  /\ res' = Response("CreateDebt", 201, id, client, currentDebt)
             ELSE /\ UNCHANGED <<ledger, nextTx, clients>>
                  /\ res' = Response("CreateDebt", 500, 0, NoClient, 0)

\* POST /debtors.  client: 0 is a body without a valid Mongo id; cd and idebt
\* are JSON values (idebt Absent: initialDebt not supplied); stored: the
\* database takes the ledger entry (Transaction.create throws otherwise, as it
\* does for an entry the schema refuses).
CreateDebtWith(client, cd, idebt, stored) ==
  IF client = NoClient \/ cd.t \notin {"num", "numstr"}
     \/ idebt.t \notin {"num", "numstr", "absent"}
  THEN /\ res' = Response("CreateDebt", 400, 0, NoClient, 0)
       /\ UNCHANGED <<clients, debtors, ledger, nextTx>>
  ELSE IF ~ClientExists(client)
  THEN /\ res' = Response("CreateDebt", 404, 0, NoClient, 0)
       /\ UNCHANGED <<clients, debtors, ledger, nextTx>>
  ELSE LET currentDebt == cd.v
           initialDebt == IF idebt.t = "absent" THEN currentDebt ELSE idebt.v
           debtor == NewDebtor(client, currentDebt, initialDebt)
           id == Len(debtors) + 1
           e == Entry(nextTx, "debt-created", currentDebt, "debt", client, id)
       IN /\ debtors' = Append(debtors, debtor)
          /\ IF TransactionValid(e) /\ stored
             THEN ledger' = Append(ledger, e) /\ nextTx' = nextTx + 1
             ELSE UNCHANGED <<ledger, nextTx>>
          /\ clients' = [clients EXCEPT ![client] = DebtAfterCreate(clients[client], currentDebt)]
          /\ res' = Response("CreateDebt", 201, id, client, currentDebt)

CreateDebtLateLookup(client, cd, idebt) ==
  IF client = NoClient \/ cd.t \notin {"num", "numstr"}
     \/ idebt.t \notin {"num", "numstr", "absent"}
  THEN /\ res' = Response("CreateDebt", 400, 0, NoClient, 0)
       /\ UNCHANGED <<clients, debtors, ledger, nextTx>>
  ELSE LET currentDebt == cd.v
           initialDebt == IF idebt.t = "absent" THEN currentDebt ELSE idebt.v
           debtor == NewDebtor(client, currentDebt, initialDebt)
           id == Len(debtors) + 1
           e == Entry(nextTx, "debt-created", currentDebt, "debt", client, id)
       IN /\ debtors' = Append(debtors, debtor)
          /\ IF ~ClientExists(client)
             THEN /\ res' = Response("CreateDebt", 404, 0, NoClient, 0)
                  /\ UNCHANGED <<clients, ledger, nextTx>>
             ELSE /\ IF TransactionValid(e)
                     THEN ledger' = Append(ledger, e) /\ nextTx' = nextTx + 1
                     ELSE UNCHANGED <<ledger, nextTx>>
                  /\ clients' = [clients EXCEPT ![client] = clients[client] + currentDebt]
                  /\ res' = Response("CreateDebt", 201, id, client, currentDebt)

\* POST /debtors with a database that takes the ledger entry.
CreateDebt(client, cd, idebt) == CreateDebtWith(client, cd, idebt, TRUE)

(* ---------------------------- Pay Debt --------------------------------- *)
RemainingDebtUnclamped(currentDebt, payment) == currentDebt - payment

\* `Math.max(0, debtor.currentDebt - payment)`
RemainingDebt(currentDebt, payment) == Max(0, currentDebt - payment)

DebtAfterPaymentAdded(debt, payment) == debt + payment

\* `(client.debt || 0) - payment`
DebtAfterPayment(debt, payment) == debt - payment

TotalPaidAfterKept(totalPaid, payment) == totalPaid

\* `debtor.totalPaid += payment`
TotalPaidAfter(totalPaid, payment) == totalPaid + payment

PayDebtWithSettling(id, pay, stored) ==
  IF PaymentRejected(pay)
  THEN /\ res' = Response("PayDebt", 400, id, NoClient, 0)
       /\ UNCHANGED <<clients, debtors, ledger, nextTx>>
  ELSE IF ~FindDebtor(id)
  THEN /\ res' = Response("PayDebt", 404, id, NoClient, 0)
       /\ UNCHANGED <<clients, debtors, ledger, nextTx>>
  ELSE LET payment == pay.v
           d == debtors[id]
           e == Entry(nextTx, "debt-payment", payment, "cash", d.client, id)
       IN /\ debtors' = [debtors EXCEPT ![id] =
                 [d EXCEPT !.currentDebt = RemainingDebt(d.currentDebt, payment),
                           !.totalPaid = TotalPaidAfter(d.totalPaid, payment),
                           !.lastPayment = payment,
                           !.status = IF RemainingDebt(d.currentDebt, payment) = 0
                                      THEN "paid" ELSE d.status]]
          /\ IF TransactionValid(e) /\ stored
             THEN ledger' = Append(ledger, e) /\ nextTx' = nextTx + 1
             ELSE UNCHANGED <<ledger, nextTx>>
          /\ IF ClientExists(d.client)
             THEN clients' = [clients EXCEPT ![d.client] =
                                DebtAfterPayment(clients[d.client], payment)]
             ELSE UNCHANGED clients
          /\ res' = Response("PayDebt", 200, id, d.client, payment)

\* POST /debtors/:id/payment; stored as for Create Debt.
PayDebtWith(id, pay, stored) ==
  IF PaymentRejected(pay)
  THEN /\ res' = Response("PayDebt", 400, id, NoClient, 0)
       /\ UNCHANGED <<clients, debtors, ledger, nextTx>>
  ELSE IF ~FindDebtor(id)
  THEN /\ res' = Response("PayDebt", 404, id, NoClient, 0)
       /\ UNCHANGED <<clients, debtors, ledger, nextTx>>
  ELSE LET payment == pay.v
           d == debtors[id]
           e == Entry(nextTx, "debt-payment", payment, "cash", d.client, id)
       IN /\ debtors' = [debtors EXCEPT ![id] =
                 [d EXCEPT !.currentDebt = RemainingDebt(d.currentDebt, payment),
                           !.totalPaid = TotalPaidAfter(d.totalPaid, payment),
                           !.lastPayment = payment]]
          /\ IF TransactionValid(e) /\ stored
             THEN ledger' = Append(ledger, e) /\ nextTx' = nextTx + 1
             ELSE UNCHANGED <<ledger, nextTx>>
          /\ IF ClientExists(d.client)
             THEN clients' = [clients EXCEPT ![d.client] =
                                DebtAfterPayment(clients[d.client], payment)]
             ELSE UNCHANGED clients
          /\ res' = Response("PayDebt", 200, id, d.client, payment)

\* POST /debtors/:id/payment with a database that takes the ledger entry.
PayDebt(id, pay) == PayDebtWith(id, pay, TRUE)

(* ---------------------------- Edit Debt -------------------------------- *)
\* Object.assign(debtor, updates): every field of the body except
\* nextPayment and description overwrites the debtor's field of that name.
MergeKeepingClient(d, body) ==
  [f \in DOMAIN d |-> IF f \in DOMAIN body /\ f # "client" THEN body[f] ELSE d[f]]

Merge(d, body) == [f \in DOMAIN d |-> IF f \in DOMAIN body THEN body[f] ELSE d[f]]

EditDebtFindById(id, body) ==
  IF id \notin 1 .. Len(debtors)
  THEN /\ res' = Response("EditDebt", 404, id, NoClient, 0)
       /\ UNCHANGED <<clients, debtors, ledger, nextTx>>
  ELSE LET d == Merge(debtors[id], body)
           saved == [debtors EXCEPT ![id] = d]
           clientId == d.client
       IN /\ debtors' = saved
          /\ IF ClientExists(clientId)
             THEN clients' = [clients EXCEPT ![clientId] = TotalDebt(saved, clientId)]
             ELSE UNCHANGED clients
          /\ UNCHANGED <<ledger, nextTx>>
          /\ res' = Response("EditDebt", 200, id, clientId, 0)

\* PATCH /debtors/:id
EditDebt(id, body) ==
  IF ~FindDebtor(id)
  THEN /\ res' = Response("EditDebt", 404, id, NoClient, 0)
       /\ UNCHANGED <<clients, debtors, ledger, nextTx>>
  ELSE LET d == Merge(debtors[id], body)
           saved == [debtors EXCEPT ![id] = d]
           clientId == d.client
       IN /\ debtors' = saved
          /\ IF ClientExists(clientId)
             THEN clients' = [clients EXCEPT ![clientId] = TotalDebt(saved, clientId)]
             ELSE UNCHANGED clients
          /\ UNCHANGED <<ledger, nextTx>>
          /\ res' = Response("EditDebt", 200, id, clientId, 0)

(* ---------------------------- Delete Debt ------------------------------ *)
DeleteDebtSubtractOnly(id) ==
  IF ~FindDebtor(id)
  THEN /\ res' = Response("DeleteDebt", 404, id, NoClient, 0)
       /\ UNCHANGED <<clients, debtors, ledger, nextTx>>
  ELSE LET d == debtors[id]
       IN /\ IF ClientExists(d.client)
             THEN clients' = [clients EXCEPT ![d.client] = clients[d.client] - d.currentDebt]
             ELSE UNCHANGED clients
          /\ debtors' = [debtors EXCEPT ![id] =
                 [d EXCEPT !.isDeleted = TRUE, !.deletedAt = "set"]]
          /\ UNCHANGED <<ledger, nextTx>>
          /\ res' = Response("DeleteDebt", 200, id, d.client, d.currentDebt)

\* DELETE /debtors/:id
DeleteDebt(id) ==
  IF ~FindDebtor(id)
  THEN /\ res' = Response("DeleteDebt", 404, id, NoClient, 0)
       /\ UNCHANGED <<clients, debtors, ledger, nextTx>>
  ELSE LET d == debtors[id]
           subtracted == [clients EXCEPT ![d.client] = clients[d.client] - d.currentDebt]
           reset == [subtracted EXCEPT ![d.client] = 0]
       IN /\ IF ClientExists(d.client)
             THEN clients' = reset
             ELSE UNCHANGED clients
          /\ debtors' = [debtors EXCEPT ![id] =
                 [d EXCEPT !.isDeleted = TRUE, !.deletedAt = "set"]]
          /\ UNCHANGED <<ledger, nextTx>>
          /\ res' = Response("DeleteDebt", 200, id, d.client, d.currentDebt)

(* ---------------------------- failing writes --------------------------- *)
\* POST /debtors when `clientDoc.save()` throws: the handler's catch answers
\* 500 after the Debtor and the ledger entry were written.
CreateDebtClientSaveFails(client, cd, idebt) ==
  IF client = NoClient \/ cd.t \notin {"num", "numstr"}
     \/ idebt.t \notin {"num", "numstr", "absent"}
  THEN /\ res' = Response("CreateDebt", 400, 0, NoClient, 0)
       /\ UNCHANGED <<clients, debtors, ledger, nextTx>>
  ELSE IF ~ClientExists(client)
  THEN /\ res' = Response("CreateDebt", 404, 0, NoClient, 0)
       /\ UNCHANGED <<clients, debtors, ledger, nextTx>>
  ELSE LET currentDebt == cd.v
           initialDebt == IF idebt.t = "absent" THEN currentDebt ELSE idebt.v
           debtor == NewDebtor(client, currentDebt, initialDebt)
           id == Len(debtors) + 1
           e == Entry(nextTx, "debt-created", currentDebt, "debt", client, id)
       IN /\ debtors' = Append(debtors, debtor)
          /\ IF TransactionValid(e)
             THEN ledger' = Append(ledger, e) /\ nextTx' = nextTx + 1
             ELSE UNCHANGED <<ledger, nextTx>>
          /\ UNCHANGED clients
          /\ res' = Response("CreateDebt", 500, id, client, currentDebt)

\* POST /debtors/:id/payment when `client.save()` throws.
PayDebtClientSaveFails(id, pay) ==
  IF PaymentRejected(pay)
  THEN /\ res' = Response("PayDebt", 400, id, NoClient, 0)
       /\ UNCHANGED <<clients, debtors, ledger, nextTx>>
  ELSE IF ~FindDebtor(id)
  THEN /\ res' = Response("PayDebt", 404, id, NoClient, 0)
       /\ UNCHANGED <<clients, debtors, ledger, nextTx>>
  ELSE LET payment == pay.v
           d == debtors[id]
           e == Entry(nextTx, "debt-payment", payment, "cash", d.client, id)
       IN /\ debtors' = [debtors EXCEPT ![id] =
                 [d EXCEPT !.currentDebt = RemainingDebt(d.currentDebt, payment),
                           !.totalPaid = TotalPaidAfter(d.totalPaid, payment),
                           !.lastPayment = payment]]
          /\ IF TransactionValid(e)
             THEN ledger' = Append(ledger, e) /\ nextTx' = nextTx + 1
             ELSE UNCHANGED <<ledger, nextTx>>
          /\ UNCHANGED clients
          /\ IF ClientExists(d.client)
             THEN res' = Response("PayDebt", 500, id, d.client, payment)
             ELSE res' = Response("PayDebt", 200, id, d.client, payment)

DeleteDebtSaveFailsRestoring(id) ==
  IF ~FindDebtor(id)
  THEN /\ res' = Response("DeleteDebt", 404, id, NoClient, 0)
       /\ UNCHANGED <<clients, debtors, ledger, nextTx>>
  ELSE /\ UNCHANGED <<clients, debtors, ledger, nextTx>>
       /\ res' = Response("DeleteDebt", 500, id, debtors[id].client, debtors[id].currentDebt)

\* DELETE /debtors/:id when the `debtor.save()` of the soft delete throws:
\* the client's debt was already reset.
DeleteDebtSaveFails(id) ==
  IF ~FindDebtor(id)
  THEN /\ res' = Response("DeleteDebt", 404, id, NoClient, 0)
       /\ UNCHANGED <<clients, debtors, ledger, nextTx>>
  ELSE LET d == debtors[id]
           subtracted == [clients EXCEPT ![d.client] = clients[d.client] - d.currentDebt]
           reset == [subtracted EXCEPT ![d.client] = 0]
       IN /\ IF ClientExists(d.client)
             THEN clients' = reset
             ELSE UNCHANGED clients
          /\ UNCHANGED <<debtors, ledger, nextTx>>
          /\ res' = Response("DeleteDebt", 500, id, d.client, d.currentDebt)

(* ---------------------------- Get Debtor ------------------------------- *)
\* GET /debtors/:id
GetDebtor(id) ==
  /\ IF FindDebtor(id)
     THEN res' = Response("GetDebtor", 200, id, debtors[id].client, debtors[id].currentDebt)
     ELSE res' = Response("GetDebtor", 404, id, NoClient, 0)
  /\ UNCHANGED <<clients, debtors, ledger, nextTx>>

(* ---------------------------- Cash-in / cash-out ----------------------- *)
CashEffectSwapped(type, amount) ==
  IF type = "cash-in" THEN amount
  ELSE IF type = "cash-out" THEN 0 - amount
  ELSE 0

\* The change a cash entry of the given type and amount makes to the debt of
\* its client: cash-in lowers it, cash-out raises it, other types leave it.
CashEffect(type, amount) ==
  IF type = "cash-in" THEN 0 - amount
  ELSE IF type = "cash-out" THEN amount
  ELSE 0

AmountRejectedWithZero(amount) == amount <= 0

\* `if (amount < 0) return res.status(400)`
AmountRejected(amount) == amount < 0

CreditDoubled(cl, c, delta) ==
  IF ClientExists(c) THEN [cl EXCEPT ![c] = cl[c] + 2 * delta] ELSE cl

\* `if (isClient) { isClient.debt -= amount; await isClient.save(); }`
Credit(cl, c, delta) ==
  IF ClientExists(c) THEN [cl EXCEPT ![c] = cl[c] + delta] ELSE cl

\* Body shared by POST /transactions/cash-in and /cash-out.
CashPost(op, type, amt, paymentType, client) ==
  LET amount == NumberOrZero(amt)
      e == Entry(nextTx, type, amount, paymentType, client, 0)
  IN IF AmountRejected(amount)
     THEN /\ res' = Response(op, 400, 0, NoClient, 0)
          /\ UNCHANGED <<clients, debtors, ledger, nextTx>>
     ELSE /\ clients' = Credit(clients, client, CashEffect(type, amount))
          /\ UNCHANGED debtors
          /\ IF TransactionValid(e)
             THEN /\ ledger' = Append(ledger, e)
                  /\ nextTx' = nextTx + 1
                  /\ res' = Response(op, 201, e.id, client, amount)
             ELSE /\ UNCHANGED <<ledger, nextTx>>
                  /\ res' = Response(op, 500, 0, client, amount)

\* POST /transactions/cash-in
CashIn(amt, paymentType, client) == CashPost("CashIn", "cash-in", amt, paymentType, client)

\* POST /transactions/cash-out
CashOut(amt, paymentType, client) == CashPost("CashOut", "cash-out", amt, paymentType, client)

(* ---------------------------- Edit Transaction ------------------------- *)
\* PUT /transactions/:id
EditTransaction(id, amt, paymentType, client) ==
  LET amount == NumberOrZero(amt)
      i == TxIndex(id)
  IN IF AmountRejected(amount)
     THEN /\ res' = Response("EditTransaction", 400, id, NoClient, 0)
          /\ UNCHANGED <<clients, debtors, ledger, nextTx>>
     ELSE IF i = 0 \/ ledger[i].isDeleted
     THEN /\ res' = Response("EditTransaction", 404, id, NoClient, 0)
          /\ UNCHANGED <<clients, debtors, ledger, nextTx>>
     ELSE LET t == ledger[i]
              moved == client # NoClient /\ client # t.client
              \* client changes: undo the old amount on the old client, then
              \* apply the new amount to the new client
              afterOld == Credit(clients, t.client, 0 - CashEffect(t.type, t.amount))
              afterNew == Credit(afterOld, client, CashEffect(t.type, amount))
              \* client stays: adjust by the difference of the amounts
              afterSame == Credit(clients, client,
                                  CashEffect(t.type, amount) - CashEffect(t.type, t.amount))
              t2 == [t EXCEPT !.client = IF moved THEN client ELSE t.client,
                              !.amount = amount,
                              !.paymentType = paymentType]
          IN /\ clients' = IF moved THEN afterNew
                           ELSE IF client # NoClient THEN afterSame
                           ELSE clients
             /\ UNCHANGED <<debtors, nextTx>>
             /\ IF TransactionValid(t2)
                THEN /\ ledger' = [ledger EXCEPT ![i] = t2]
                     /\ res' = Response("EditTransaction", 200, id, client, amount)
                ELSE /\ UNCHANGED ledger
                     /\ res' = Response("EditTransaction", 500, id, client, amount)

(* ---------------------------- Delete Transaction ----------------------- *)
DeleteTransactionReversing(id) ==
  LET i == TxIndex(id)
  IN IF i = 0
     THEN /\ res' = Response("DeleteTransaction", 404, id, NoClient, 0)
          /\ UNCHANGED <<clients, debtors, ledger, nextTx>>
     ELSE /\ ledger' = RemoveAt(ledger, i)
          /\ clients' = Credit(clients, ledger[i].client,
                               0 - CashEffect(ledger[i].type, ledger[i].amount))
          /\ UNCHANGED <<debtors, nextTx>>
          /\ res' = Response("DeleteTransaction", 200, id, NoClient, 0)

\* DELETE /transactions/:id
DeleteTransaction(id) ==
  LET i == TxIndex(id)
  IN IF i = 0
     THEN /\ res' = Response("DeleteTransaction", 404, id, NoClient, 0)
          /\ UNCHANGED <<clients, debtors, ledger, nextTx>>
     ELSE /\ ledger' = RemoveAt(ledger, i)
          /\ UNCHANGED <<clients, debtors, nextTx>>
          /\ res' = Response("DeleteTransaction", 200, id, NoClient, 0)

(* ---------------------------- authentication -------------------------- *)
\* A route as its router registers it.  token: the request carries a bearer
\* token that authMiddleware accepts.  A route registered with authMiddleware
\* answers 401 without running its handler when token is FALSE; a route
\* registered without it runs its handler whatever the token.
Unauthorized(op) ==
  /\ res' = Response(op, 401, 0, NoClient, 0)
  /\ UNCHANGED <<clients, debtors, ledger, nextTx>>

\* router.post("/", authMiddleware, debtorValidation, ...)
PostDebtor(token, client, cd, idebt) ==
  IF token THEN CreateDebt(client, cd, idebt) ELSE Unauthorized("CreateDebt")

\* router.post("/:id/payment", authMiddleware, ...)
PostPayment(token, id, pay) ==
  IF token THEN PayDebt(id, pay) ELSE Unauthorized("PayDebt")

\* router.patch("/:id", authMiddleware, ...)
PatchDebtor(token, id, body) ==
  IF token THEN EditDebt(id, body) ELSE Unauthorized("EditDebt")

\* router.delete("/:id", authMiddleware, ...)
DeleteDebtor(token, id) ==
  IF token THEN DeleteDebt(id) ELSE Unauthorized("DeleteDebt")

\* router.post("/cash-in", async (req, res) => ...)
PostCashIn(token, amt, paymentType, client) == CashIn(amt, paymentType, client)

\* router.post("/cash-out", async (req, res) => ...)
PostCashOut(token, amt, paymentType, client) == CashOut(amt, paymentType, client)

\* router.put("/:id", async (req, res) => ...)
PutTransaction(token, id, amt, paymentType, client) ==
  EditTransaction(id, amt, paymentType, client)

\* router.delete("/:id", async (req, res) => ...)
DeleteTransactionRoute(token, id) == DeleteTransaction(id)

(* ---------------------------- overlapping requests -------------------- *)
\* A handler runs from one `await` to the next without interruption; between
\* two awaits of one request the other request may run.
Goto(p, pc) == [flight EXCEPT ![p].pc = pc]

\* POST /debtors/:id/payment arrives with a payment the handler accepts.
StartPay(p, id, pay) ==
  /\ flight[p].pc = "idle"
  /\ ~PaymentRejected(pay)
  /\ ops < MaxRaceOps /\ ops' = ops + 1
  /\ flight' = [flight EXCEPT ![p] =
       [Idle EXCEPT !.pc = "findDebtor", !.op = "PayDebt", !.id = id, !.payment = pay.v]]
  /\ UNCHANGED <<clients, debtors, ledger, nextTx, res>>

\* `await Debtor.findOne(...)`, then the new field values in memory.
PayFindDebtor(p) ==
  /\ flight[p].pc = "findDebtor"
  /\ LET f == flight[p]
     IN IF ~FindDebtor(f.id)
        THEN /\ res' = Response("PayDebt", 404, f.id, NoClient, 0)
             /\ flight' = Goto(p, "done")
        ELSE /\ flight' = [flight EXCEPT ![p] =
                  [f EXCEPT !.pc = "saveDebtor",
                            !.client = debtors[f.id].client,
                            !.currentDebt = RemainingDebt(debtors[f.id].currentDebt, f.payment),
                            !.totalPaid = TotalPaidAfter(debtors[f.id].totalPaid, f.payment),
                            !.lastPayment = f.payment]]
             /\ UNCHANGED res
  /\ UNCHANGED <<clients, debtors, ledger, nextTx, ops>>

PaySaveDebtorThenClient(p) ==
  /\ flight[p].pc = "saveDebtor"
  /\ LET f == flight[p]
     IN debtors' = [debtors EXCEPT ![f.id] =
          [@ EXCEPT !.currentDebt = f.currentDebt,
                    !.totalPaid = f.totalPaid,
                    !.lastPayment = f.lastPayment]]
  /\ flight' = Goto(p, "findClient")
  /\ UNCHANGED <<clients, ledger, nextTx, res, ops>>

\* `await debtor.save()`: the modified fields are written as computed.
PaySaveDebtor(p) ==
  /\ flight[p].pc = "saveDebtor"
  /\ LET f == flight[p]
     IN debtors' = [debtors EXCEPT ![f.id] =
          [@ EXCEPT !.currentDebt = f.currentDebt,
                    !.totalPaid = f.totalPaid,
                    !.lastPayment = f.lastPayment]]
  /\ flight' = Goto(p, "createEntry")
  /\ UNCHANGED <<clients, ledger, nextTx, res, ops>>

\* `await Transaction.create(...)` inside its try/catch.
PayCreateEntry(p) ==
  /\ flight[p].pc = "createEntry"
  /\ LET f == flight[p]
         e == Entry(nextTx, "debt-payment", f.payment, "cash", f.client, f.id)
     IN IF TransactionValid(e)
        THEN /\ ledger' = Append(ledger, e) /\ nextTx' = nextTx + 1
             /\ flight' = [flight EXCEPT ![p] = [f EXCEPT !.pc = "findClient", !.entry = e.id]]
        ELSE /\ UNCHANGED <<ledger, nextTx>>
             /\ flight' = Goto(p, "findClient")
  /\ UNCHANGED <<clients, debtors, res, ops>>

\* `await Client.findById(debtor.client)`
PayFindClient(p) ==
  /\ flight[p].pc = "findClient"
  /\ LET f == flight[p]
     IN IF ClientExists(f.client)
        THEN flight' = [flight EXCEPT ![p] =
               [f EXCEPT !.pc = "saveClient", !.debt = clients[f.client]]]
        ELSE flight' = Goto(p, "respond")
  /\ UNCHANGED <<clients, debtors, ledger, nextTx, res, ops>>

PaySaveClientInPlace(p) ==
  /\ flight[p].pc = "saveClient"
  /\ LET f == flight[p]
     IN clients' = [clients EXCEPT ![f.client] = DebtAfterPayment(clients[f.client], f.payment)]
  /\ flight' = Goto(p, "respond")
  /\ UNCHANGED <<debtors, ledger, nextTx, res, ops>>

\* `client.debt = (client.debt || 0) - payment; await client.save()`: the
\* value computed from the document read is written.
PaySaveClient(p) ==
  /\ flight[p].pc = "saveClient"
  /\ LET f == flight[p]
     IN clients' = [clients EXCEPT ![f.client] = DebtAfterPayment(f.debt, f.payment)]
  /\ flight' = Goto(p, "respond")
  /\ UNCHANGED <<debtors, ledger, nextTx, res, ops>>

\* `await Debtor.findById(...).populate("client")`, then `res.json(...)`.
PayRespond(p) ==
  /\ flight[p].pc = "respond"
  /\ res' = Response("PayDebt", 200, flight[p].id, flight[p].client, flight[p].payment)
  /\ flight' = Goto(p, "done")
  /\ UNCHANGED <<clients, debtors, ledger, nextTx, ops>>

\* POST /transactions/cash-in arrives for a client, with an amount the
\* handler accepts and payment type cash.
StartCashIn(p, amt, client) ==
  /\ flight[p].pc = "idle"
  /\ ~AmountRejected(NumberOrZero(amt))
  /\ ops < MaxRaceOps /\ ops' = ops + 1
  /\ flight' = [flight EXCEPT ![p] =
       [Idle EXCEPT !.pc = "cashFindClient", !.op = "CashIn",
                    !.payment = NumberOrZero(amt), !.client = client]]
  /\ UNCHANGED <<clients, debtors, ledger, nextTx, res>>

\* POST /transactions/cash-out, likewise.
StartCashOut(p, amt, client) ==
  /\ flight[p].pc = "idle"
  /\ ~AmountRejected(NumberOrZero(amt))
  /\ ops < MaxRaceOps /\ ops' = ops + 1
  /\ flight' = [flight EXCEPT ![p] =
       [Idle EXCEPT !.pc = "cashFindClient", !.op = "CashOut",
                    !.payment = NumberOrZero(amt), !.client = client]]
  /\ UNCHANGED <<clients, debtors, ledger, nextTx, res>>

\* The `type` the cash route stores on its entry.
CashType(op) == IF op = "CashOut" THEN "cash-out" ELSE "cash-in"

\* `await Client.findById(client)`
CashFindClient(p) ==
  /\ flight[p].pc = "cashFindClient"
  /\ LET f == flight[p]
     IN IF ClientExists(f.client)
        THEN flight' = [flight EXCEPT ![p] =
               [f EXCEPT !.pc = "cashSaveClient", !.debt = clients[f.client]]]
        ELSE flight' = Goto(p, "cashCreate")
  /\ UNCHANGED <<clients, debtors, ledger, nextTx, res, ops>>

\* `isClient.debt -= amount; await isClient.save()` (`+=` in cash-out)
CashSaveClient(p) ==
  /\ flight[p].pc = "cashSaveClient"
  /\ LET f == flight[p]
     IN clients' = [clients EXCEPT ![f.client] = f.debt + CashEffect(CashType(f.op), f.payment)]
  /\ flight' = Goto(p, "cashCreate")
  /\ UNCHANGED <<debtors, ledger, nextTx, res, ops>>

\* `await Transaction.create(...)`, then the answer.
CashCreate(p) ==
  /\ flight[p].pc = "cashCreate"
  /\ LET f == flight[p]
         e == Entry(nextTx, CashType(f.op), f.payment, "cash", f.client, 0)
     IN IF TransactionValid(e)
        THEN /\ ledger' = Append(ledger, e)
             /\ nextTx' = nextTx + 1
             /\ res' = Response(f.op, 201, e.id, f.client, f.payment)
             /\ flight' = [flight EXCEPT ![p] = [f EXCEPT !.pc = "done", !.entry = e.id]]
        ELSE /\ UNCHANGED <<ledger, nextTx>>
             /\ res' = Response(f.op, 500, 0, f.client, f.payment)
             /\ flight' = Goto(p, "done")
  /\ UNCHANGED <<clients, debtors, ops>>

\* POST /debtors arrives with a body that passes debtorValidation and leaves
\* initialDebt to its default.
StartCreate(p, client, cd) ==
  /\ flight[p].pc = "idle"
  /\ client # NoClient /\ cd.t \in {"num", "numstr"}
  /\ ops < MaxRaceOps /\ ops' = ops + 1
  /\ flight' = [flight EXCEPT ![p] =
       [Idle EXCEPT !.pc = "createFindClient", !.op = "CreateDebt",
                    !.payment = cd.v, !.client = client]]
  /\ UNCHANGED <<clients, debtors, ledger, nextTx, res>>

\* `const clientExists = await Client.findById(client)`
CreateFindClient(p) ==
  /\ flight[p].pc = "createFindClient"
  /\ IF ~ClientExists(flight[p].client)
     THEN /\ res' = Response("CreateDebt", 404, 0, NoClient, 0)
          /\ flight' = Goto(p, "done")
     ELSE /\ flight' = Goto(p, "createSaveDebtor")
          /\ UNCHANGED res
  /\ UNCHANGED <<clients, debtors, ledger, nextTx, ops>>

\* `new Debtor({...}); await debtor.save()`
CreateSaveDebtor(p) ==
  /\ flight[p].pc = "createSaveDebtor"
  /\ LET f == flight[p]
     IN /\ debtors' = Append(debtors, NewDebtor(f.client, f.payment, f.payment))
        /\ flight' = [flight EXCEPT ![p] =
             [f EXCEPT !.pc = "createAppend", !.id = Len(debtors) + 1]]
  /\ UNCHANGED <<clients, ledger, nextTx, res, ops>>

\* `await Transaction.create(...)` inside its try/catch.
CreateEntry(p) ==
  /\ flight[p].pc = "createAppend"
  /\ LET f == flight[p]
         e == Entry(nextTx, "debt-created", f.payment, "debt", f.client, f.id)
     IN IF TransactionValid(e)
        THEN /\ ledger' = Append(ledger, e) /\ nextTx' = nextTx + 1
             /\ flight' = [flight EXCEPT ![p] =
                  [f EXCEPT !.pc = "createReadClient", !.entry = e.id]]
        ELSE /\ UNCHANGED <<ledger, nextTx>>
             /\ flight' = Goto(p, "createReadClient")
  /\ UNCHANGED <<clients, debtors, res, ops>>

\* `const clientDoc = await Client.findById(client)`
CreateReadClient(p) ==
  /\ flight[p].pc = "createReadClient"
  /\ LET f == flight[p]
     IN IF ClientExists(f.client)
        THEN flight' = [flight EXCEPT ![p] =
               [f EXCEPT !.pc = "createSaveClient", !.debt = clients[f.client]]]
        ELSE flight' = Goto(p, "createRespond")
  /\ UNCHANGED <<clients, debtors, ledger, nextTx, res, ops>>

\* `clientDoc.debt = (clientDoc.debt || 0) + (currentDebt || 0);
\* await clientDoc.save()`
CreateSaveClient(p) ==
  /\ flight[p].pc = "createSaveClient"
  /\ LET f == flight[p]
     IN clients' = [clients EXCEPT ![f.client] = DebtAfterCreate(f.debt, f.payment)]
  /\ flight' = Goto(p, "createRespond")
  /\ UNCHANGED <<debtors, ledger, nextTx, res, ops>>

\* `await Debtor.findById(...).populate("client")`, then the 201 answer.
CreateRespond(p) ==
  /\ flight[p].pc = "createRespond"
  /\ res' = Response("CreateDebt", 201, flight[p].id, flight[p].client, flight[p].payment)
  /\ flight' = Goto(p, "done")
  /\ UNCHANGED <<clients, debtors, ledger, nextTx, ops>>

(* ---------------------------- reports ---------------------------------- *)
\* Timestamps (createdAt) are calendar dates.
Date(y, m, d) == [year |-> y, month |-> m, day |-> d]

\* `new Date().getFullYear()` at the time of the request.
CurrentYear == 2025
\* `new Date()` with the hours set to 0: the day of the request.
Today == Date(CurrentYear, 12, 10)

\* Order of two dates.
DateKey(a) == (a.year * 12 + a.month) * 32 + a.day

\* `day.setDate(now.getDate() - i)`, for a day that stays in its month.
DayBack(t, i) == [t EXCEPT !.day = t.day - i]

\* A stored document with its createdAt timestamp.
Stamp(e, at) ==
  [f \in DOMAIN e \cup {"createdAt"} |-> IF f = "createdAt" THEN at ELSE e[f]]

RECURSIVE SumAmounts(_, _)
\* `$group: {total: {$sum: "$amount"}}` over the documents of l at the
\* positions S, those the stages before it let through.
SumAmounts(l, S) ==
  IF S = {} THEN 0
  ELSE LET i == CHOOSE k \in S : TRUE
       IN l[i].amount + SumAmounts(l, S \ {i})

\* `parseInt(req.query.year) || new Date().getFullYear()`
YearOf(q) == IF q.t = "numstr" /\ q.v # 0 THEN q.v ELSE CurrentYear

InYearOrLater(e, year) == e.createdAt.year >= year

\* `$match: {createdAt: {$gte: <year>-01-01, $lt: <year + 1>-01-01}}`
InYear(e, year) == e.createdAt.year = year

\* The `$project` and `$group` stages: one group for each month and type
\* that occurs among the matched documents, with the sum of their amounts.
MonthlyGroups(l, year) ==
  LET matched == {i \in 1 .. Len(l) : InYear(l[i], year)}
      keys == {<<l[i].createdAt.month, l[i].type>> : i \in matched}
  IN {[month |-> k[1], type |-> k[2],
       total |-> SumAmounts(l, {i \in matched : /\ l[i].createdAt.month = k[1]
                                                /\ l[i].type = k[2]})] : k \in keys}

\* `Array(12).fill(0)` with `series[item._id.month - 1] = item.total` for the
\* groups of one type; position i is index i - 1.
MonthlySeries(groups, type) ==
  [i \in 1 .. 12 |->
     IF \E g \in groups : g.type = type /\ g.month - 1 = i - 1
     THEN (CHOOSE g \in groups : g.type = type /\ g.month - 1 = i - 1).total
     ELSE 0]

\* GET /transactions/statistics/monthly-transactions
MonthlyStatistics(q) ==
  LET year == YearOf(q)
      groups == MonthlyGroups(ledger, year)
  IN /\ res' = [op |-> "MonthlyStatistics", status |-> 200, year |-> year,
                cashIn |-> MonthlySeries(groups, "cash-in"),
                cashOut |-> MonthlySeries(groups, "cash-out")]
     /\ UNCHANGED <<clients, debtors, ledger, nextTx, flight>>

IncomeTypes == {"cash-in", "order", "debt-payment"}

\* The income aggregation of the dashboard: `$match` on createdAt in
\* [start, end), on the income types and on isDeleted: false, then `$sum`.
IncomeBetween(l, start, end) ==
  SumAmounts(l, {i \in 1 .. Len(l) : /\ DateKey(l[i].createdAt) >= DateKey(start)
                                     /\ DateKey(l[i].createdAt) < DateKey(end)
                                     /\ l[i].type \in IncomeTypes
                                     /\ l[i].isDeleted = FALSE})

\* getWeeklyIncomeFromTransactions: the last seven days, oldest first.
WeeklyIncome(l) ==
  [k \in 1 .. 7 |-> IncomeBetween(l, DayBack(Today, 7 - k), DayBack(Today, 6 - k))]

\* Debtor.countDocuments / Debtor.aggregate with isDeleted: {$ne: true} and
\* currentDebt: {$gt: 0}.
OpenDebtors(ds) == {i \in 1 .. Len(ds) : ds[i].isDeleted # TRUE /\ ds[i].currentDebt > 0}

RECURSIVE SumField(_, _, _)
SumField(ds, S, field) ==
  IF S = {} THEN 0
  ELSE LET i == CHOOSE k \in S : TRUE
       IN ds[i][field] + SumField(ds, S \ {i}, field)

\* GET /dashboard/summary with the default range (the current month): the
\* income cards, the weekly chart and the debtor card.
DashboardSummary ==
  /\ res' = [op |-> "DashboardSummary", status |-> 200,
             todayIncome |-> IncomeBetween(ledger, Today, DayBack(Today, 0 - 1)),
             monthlyIncome |-> IncomeBetween(ledger, Date(Today.year, Today.month, 1),
                                             Date(Today.year, Today.month, 31)),
             weeklyIncome |-> WeeklyIncome(ledger),
             debtorsCount |-> Cardinality(OpenDebtors(debtors)),
             totalDebts |-> SumField(debtors, OpenDebtors(debtors), "currentDebt")]
  /\ UNCHANGED <<clients, debtors, ledger, nextTx, flight>>

DebtorStatuses == {"pending", "partial", "paid", "overdue"}

\* GET /debtors/stats/summary without a date range.
DebtorStatsSummary ==
  LET found == {i \in 1 .. Len(debtors) : debtors[i].isDeleted = FALSE}
  IN /\ res' = [op |-> "DebtorStatsSummary", status |-> 200,
                totalCurrentDebt |-> SumField(debtors, found, "currentDebt"),
                totalPaid |-> SumField(debtors, found, "totalPaid"),
                statusCounts |-> [st \in DebtorStatuses |->
                                    Cardinality({i \in found : debtors[i].status = st})],
                totalDebtors |-> Cardinality(found)]
     /\ UNCHANGED <<clients, debtors, ledger, nextTx, flight>>

IsStored(e) == e.isDeleted = FALSE

ListTransactionsPurging ==
  /\ res' = [op |-> "ListTransactions", status |-> 200,
             transactions |-> SelectSeq(ledger, IsStored)]
  /\ ledger' = SelectSeq(ledger, IsStored)
  /\ UNCHANGED <<clients, debtors, nextTx, flight>>

\* GET /transactions: `Transaction.find({isDeleted: false})`
ListTransactions ==
  /\ res' = [op |-> "ListTransactions", status |-> 200,
             transactions |-> SelectSeq(ledger, IsStored)]
  /\ UNCHANGED <<clients, debtors, ledger, nextTx, flight>>

\* Documents on file when a report is asked for.
SampleDates ==
  {Today, DayBack(Today, 1), Date(CurrentYear, 12, 31), Date(CurrentYear + 1, 1, 1)}

EntryShapes ==
  [type : {"cash-in", "cash-out", "debt-payment"}, amount : {1, MaxAmount},
   at : SampleDates, isDeleted : BOOLEAN]

DebtorShapes == [currentDebt : {0, MaxAmount}, status : {"pending", "paid"}, isDeleted : BOOLEAN]

StoredLedger(shapes) ==
  [i \in 1 .. Len(shapes) |->
     Stamp([Entry(i, shapes[i].type, shapes[i].amount, "cash", NoClient, 0)
              EXCEPT !.isDeleted = shapes[i].isDeleted], shapes[i].at)]

StoredDebtors(shapes) ==
  [i \in 1 .. Len(shapes) |->
     [NewDebtor(1, shapes[i].currentDebt, MaxAmount)
        EXCEPT !.totalPaid = MaxAmount - shapes[i].currentDebt,
               !.status = shapes[i].status,
               !.isDeleted = shapes[i].isDeleted,
               !.deletedAt = IF shapes[i].isDeleted THEN "set" ELSE "none"]]

YearQueries == {Absent, Str, NumStr(CurrentYear + 1), NumStr(CurrentYear - 1)}

(* ---------------------------- product quick search -------------------- *)
\* A JavaScript number that is not a number.
NaN == [t |-> "nan", v |-> 0]

\* `parseInt(x)` of a query-string value; a parameter that is absent was
\* replaced by its default number before.
ParseInt(x) == IF x.t \in {"num", "numstr"} THEN Num(x.v) ELSE NaN

\* Math.min and Math.max return NaN when an argument is NaN.
MathMin(a, b) ==
  IF a.t = "nan" \/ b.t = "nan" THEN NaN ELSE Num(IF a.v < b.v THEN a.v ELSE b.v)

MathMax(a, b) ==
  IF a.t = "nan" \/ b.t = "nan" THEN NaN ELSE Num(Max(a.v, b.v))

\* `const { page = 1, limit = 10 } = req.query`
OrDefault(x, default) == IF x.t = "absent" THEN Num(default) ELSE x

\* `Math.max(1, parseInt(page))`
PageNumber(page) == MathMax(Num(1), ParseInt(OrDefault(page, 1)))

\* `Math.max(1, Math.min(50, parseInt(limit)))`
LimitNumber(limit) == MathMax(Num(1), MathMin(Num(50), ParseInt(OrDefault(limit, 10))))

\* `Math.ceil(totalCount / limitNumber)`
TotalPages(totalCount, limitNumber) ==
  IF limitNumber.t = "nan" THEN NaN
  ELSE Num((totalCount + limitNumber.v - 1) \div limitNumber.v)

\* GET /products/search/:query over a collection in which totalCount products
\* match.  With a limit or a skip that is NaN the query either runs and the
\* answer reports the NaN, or the database refuses it and the answer is 500.
SearchProducts(limit, page, totalCount, refused) ==
  LET pageNumber == PageNumber(page)
      limitNumber == LimitNumber(limit)
      totalPages == TotalPages(totalCount, limitNumber)
  IN /\ refused => (limitNumber.t = "nan" \/ pageNumber.t = "nan")
     /\ res' = IF refused
               THEN [op |-> "SearchProducts", status |-> 500]
               ELSE [op |-> "SearchProducts", status |-> 200,
                     currentPage |-> pageNumber, totalPages |-> totalPages,
                     totalCount |-> totalCount, limit |-> limitNumber]
     /\ UNCHANGED <<clients, debtors, ledger, nextTx, flight>>

LimitQueries == {Absent, Str} \cup {NumStr(n) : n \in 0 - 1 .. MaxLimitQuery}

PageQueries == {Absent, Str, NumStr(0), NumStr(2)}

(* ---------------------------- request inputs --------------------------- *)
RequestClients == ClientIds \cup {GhostClient, NoClient}

CreateBodies ==
  {<<Num(n), Absent>> : n \in Amounts} \cup {<<Num(1), Num(MaxAmount)>>, <<Str, Absent>>}

EditBodies ==
  {[currentDebt |-> n] : n \in {0, MaxAmount}} \cup
  {[client |-> c] : c \in ClientIds \cup {GhostClient}} \cup
  {[description |-> "note"], [isDeleted |-> TRUE],
   [status |-> "paid", totalPaid |-> 0]}

\* Bodies of PATCH /debtors/:id that name a client, alone or with a new
\* currentDebt, and bodies that leave the client as it is.
MoveBodies ==
  {[client |-> c] : c \in ClientIds \cup {GhostClient}} \cup
  {[client |-> c, currentDebt |-> 1] : c \in ClientIds} \cup
  {[currentDebt |-> 0], [isDeleted |-> TRUE]}

RequestPaymentTypes == {"cash", "none"}

\* Ids of requests: an id names no document until that document is created.
DebtorIds == 1 .. MaxDebtors
TxIds == 1 .. MaxTx

(* ---------------------------- properties ------------------------------- *)
RECURSIVE SumOver(_, _)
SumOver(ds, S) ==
  IF S = {} THEN 0
  ELSE LET i == CHOOSE k \in S : TRUE
       IN ds[i].currentDebt + SumOver(ds, S \ {i})

\* What the non-deleted debtors of client c owe together.
OwedBy(ds, c) ==
  SumOver(ds, {i \in 1 .. Len(ds) : ds[i].client = c /\ ~ds[i].isDeleted})

\* The request answered in this step, by operation and status code.
Answered(op, status) == res'.op = op /\ res'.status = status

LastEntry(l) == l[Len(l)]

\* C1: every successful Pay Debt with payment p leaves the debtor's
\* currentDebt at max(0, previous currentDebt - p) and the debt of the
\* debtor's client at its previous value minus exactly p.
C1_PayDebtEffect ==
  [][Answered("PayDebt", 200) =>
       LET id == res'.id
           p == res'.amount
           c == debtors[id].client
       IN /\ debtors'[id].currentDebt =
               (IF debtors[id].currentDebt - p > 0 THEN debtors[id].currentDebt - p ELSE 0)
          /\ ClientExists(c) => clients'[c] = clients[c] - p]_vars

\* A debt of 2 was created for a client with no other debtor and 1 was paid.
C1_Witness ==
  /\ res.op = "PayDebt" /\ res.status = 200 /\ res.amount = 1
  /\ Len(debtors) = 1
  /\ debtors[1].initialDebt = 2 /\ debtors[1].currentDebt = 1
  /\ clients[debtors[1].client] = 1

\* C2: a successful Create Debt with currentDebt = d creates exactly one
\* Debtor with totalPaid = 0, currentDebt = d (and initialDebt = d when none
\* is supplied), appends exactly one debt-created ledger entry of amount d
\* for the client, and raises the client's debt by exactly d.
C2_CreateDebtEffect ==
  [][Answered("CreateDebt", 201) =>
       LET id == res'.id
           d == res'.amount
           c == res'.client
       IN /\ Len(debtors') = Len(debtors) + 1
          /\ id = Len(debtors')
          /\ \A i \in 1 .. Len(debtors) : debtors'[i] = debtors[i]
          /\ debtors'[id].client = c
          /\ debtors'[id].totalPaid = 0
          /\ debtors'[id].currentDebt = d
          /\ \A b \in CreateBodies :
               (b[2] = Absent /\ CreateDebt(c, b[1], b[2])) => debtors'[id].initialDebt = d
          /\ Len(ledger') = Len(ledger) + 1
          /\ \A i \in 1 .. Len(ledger) : ledger'[i] = ledger[i]
          /\ LastEntry(ledger').type = "debt-created"
          /\ LastEntry(ledger').amount = d
          /\ LastEntry(ledger').client = c
          /\ clients' = [clients EXCEPT ![c] = clients[c] + d]]_vars

\* C3: a successful Pay Debt with payment p raises totalPaid by exactly p,
\* sets lastPayment.amount to p and appends exactly one debt-payment ledger
\* entry of amount p for the debtor and its client.
C3_PayDebtLedger ==
  [][Answered("PayDebt", 200) =>
       LET id == res'.id
           p == res'.amount
       IN /\ debtors'[id].totalPaid = debtors[id].totalPaid + p
          /\ debtors'[id].lastPayment = p
          /\ Len(ledger') = Len(ledger) + 1
          /\ \A i \in 1 .. Len(ledger) : ledger'[i] = ledger[i]
          /\ LastEntry(ledger').type = "debt-payment"
          /\ LastEntry(ledger').amount = p
          /\ LastEntry(ledger').client = debtors[id].client
          /\ LastEntry(ledger').relatedId = id]_vars

\* C4: after a successful Edit Debt the debt of the client the debtor then
\* belongs to is the sum of currentDebt over that client's non-deleted
\* debtors, whatever it was before.
C4_EditDebtResum ==
  [][Answered("EditDebt", 200) =>
       LET c == debtors'[res'.id].client
       IN ClientExists(c) => clients'[c] = OwedBy(debtors', c)]_vars

\* An edit answered for a client that has two non-deleted debtors, both
\* owing something.
C4_Witness ==
  /\ res.op = "EditDebt" /\ res.status = 200
  /\ Len(debtors) = 2
  /\ \A i \in 1 .. 2 : /\ debtors[i].client = res.client
                       /\ ~debtors[i].isDeleted
                       /\ debtors[i].currentDebt > 0
  /\ ClientExists(res.client)
  /\ clients[res.client] = debtors[1].currentDebt + debtors[2].currentDebt

\* C5: after a successful Delete Debt the client's debt is 0, whatever it was
\* and whatever the client's other debtors still owe.
C5_DeleteDebtResets ==
  [][Answered("DeleteDebt", 200) =>
       (ClientExists(res'.client) => clients'[res'.client] = 0)]_vars

\* One of two debtors of a client was deleted; the other still owes.
C5_Witness ==
  /\ res.op = "DeleteDebt" /\ res.status = 200
  /\ ClientExists(res.client)
  /\ debtors[res.id].isDeleted /\ debtors[res.id].currentDebt > 0
  /\ \E i \in 1 .. Len(debtors) : /\ debtors[i].client = res.client
                                  /\ ~debtors[i].isDeleted
                                  /\ debtors[i].currentDebt > 0
  /\ clients[res.client] = 0

\* C6: a Pay Debt with payment p above the remaining currentDebt r sets
\* currentDebt to 0 and lowers the client's debt by the full p, so the gap
\* between what the client's non-deleted debtors owe and the client's debt
\* grows by p - r.
C6_OverpaymentDiverges ==
  [][Answered("PayDebt", 200) =>
       LET id == res'.id
           p == res'.amount
           r == debtors[id].currentDebt
           c == debtors[id].client
       IN (p > r /\ ClientExists(c)) =>
            /\ debtors'[id].currentDebt = 0
            /\ clients'[c] = clients[c] - p
            /\ OwedBy(debtors', c) - clients'[c] =
                 (OwedBy(debtors, c) - clients[c]) + (p - r)]_vars

\* A debt of 1 was created and 2 was paid on it: the debtor owes 0, the client
\* stands at -1.
C6_Witness ==
  /\ res.op = "PayDebt" /\ res.status = 200 /\ res.amount = 2
  /\ Len(debtors) = 1
  /\ debtors[1].initialDebt = 1 /\ debtors[1].totalPaid = 2
  /\ debtors[1].currentDebt = 0
  /\ clients[debtors[1].client] = 0 - 1
  /\ OwedBy(debtors, debtors[1].client) - clients[debtors[1].client] = 1

\* The change a ledger entry e stands for in the debt of client c.
EffectOn(e, c) ==
  IF e.client # c THEN 0
  ELSE IF e.type = "cash-in" THEN 0 - e.amount
  ELSE IF e.type = "cash-out" THEN e.amount
  ELSE 0

\* C7: a successful cash-in of amount a lowers the debt of the named existing
\* client by exactly a and a successful cash-out raises it by exactly a; each
\* appends exactly one ledger entry of its type and amount a; the debt of
\* every other client, and of every client when none is named, is unchanged.
C7_CashEffect ==
  [][(res'.op \in {"CashIn", "CashOut"} /\ res'.status = 201) =>
       LET a == res'.amount
           delta == IF res'.op = "CashIn" THEN 0 - a ELSE a
       IN /\ \A c \in ClientIds :
               clients'[c] = clients[c] + (IF c = res'.client THEN delta ELSE 0)
          /\ Len(ledger') = Len(ledger) + 1
          /\ \A i \in 1 .. Len(ledger) : ledger'[i] = ledger[i]
          /\ LastEntry(ledger').type = (IF res'.op = "CashIn" THEN "cash-in" ELSE "cash-out")
          /\ LastEntry(ledger').amount = a
          /\ LastEntry(ledger').client = res'.client]_vars

\* A cash-in of MaxAmount and then a cash-out of 1 for the same existing
\* client, who now stands at 1 - MaxAmount.
C7_Witness ==
  /\ res.op = "CashOut" /\ res.status = 201 /\ res.amount = 1
  /\ ClientExists(res.client)
  /\ Len(ledger) = 2
  /\ ledger[1].type = "cash-in" /\ ledger[1].amount = MaxAmount /\ ledger[1].client = res.client
  /\ ledger[2].type = "cash-out" /\ ledger[2].amount = 1 /\ ledger[2].client = res.client
  /\ clients[res.client] = 1 - MaxAmount

\* C8: cash-in and cash-out with a negative amount answer 400 and change no
\* client's debt and no ledger entry; with amount 0 (and a valid payment type)
\* they answer 201 and append a ledger entry of amount 0.
C8_CashAmountCheck ==
  [][(res'.op \in {"CashIn", "CashOut"}) =>
       \A a \in {x \in CashAmounts : x.t = "num" /\ x.v <= 0}, pt \in RequestPaymentTypes :
         (CashIn(a, pt, res'.client) \/ CashOut(a, pt, res'.client)) =>
           /\ (a.v < 0) =>
                /\ res'.status = 400
                /\ UNCHANGED <<clients, ledger, debtors>>
           /\ (a.v = 0 /\ pt \in PaymentTypes) =>
                /\ res'.status = 201
                /\ Len(ledger') = Len(ledger) + 1
                /\ LastEntry(ledger').amount = 0
                /\ UNCHANGED clients]_vars

\* A cash-in of amount 0 is in the ledger and a cash-out of -1 was just
\* refused.
C8_Witness ==
  /\ res.op = "CashOut" /\ res.status = 400
  /\ Len(ledger) = 1
  /\ ledger[1].type = "cash-in" /\ ledger[1].amount = 0
  /\ \A c \in ClientIds : clients[c] = 0

\* C9: after a successful Edit Transaction on a cash-in or cash-out entry
\* every client's debt is what it would be had the entry been created with
\* its new amount and client: the old entry's effect is taken back and the
\* new entry's effect is applied.
C9_EditTransactionEquivalent ==
  [][Answered("EditTransaction", 200) =>
       LET i == TxIndex(res'.id)
           old == ledger[i]
           new == ledger'[i]
       IN old.type \in {"cash-in", "cash-out"} =>
            \A c \in ClientIds :
               clients'[c] = clients[c] - EffectOn(old, c) + EffectOn(new, c)]_vars

\* C10: Delete Transaction removes the ledger entry itself and leaves every
\* client's debt and every debtor as they were.
C10_DeleteTransactionFrame ==
  [][Answered("DeleteTransaction", 200) =>
       /\ Len(ledger') = Len(ledger) - 1
       /\ \A i \in 1 .. Len(ledger') : ledger'[i].id # res'.id
       /\ \A i \in 1 .. Len(ledger) :
            ledger[i].id # res'.id => \E k \in 1 .. Len(ledger') : ledger'[k] = ledger[i]
       /\ UNCHANGED <<clients, debtors>>]_vars

\* A cash-out of 1 for an existing client was deleted from the ledger; the
\* client still stands at 1, and the debtor of the other client and its
\* debt-created entry are still on file.
C10_Witness ==
  /\ res.op = "DeleteTransaction" /\ res.status = 200 /\ res.id = 2
  /\ Len(ledger) = 1 /\ ledger[1].type = "debt-created" /\ nextTx = 3
  /\ Len(debtors) = 1 /\ debtors[1].currentDebt = 1
  /\ clients[debtors[1].client] = 1
  /\ \E c \in ClientIds : clients[c] = 1 /\ debtors[1].client # c

RECURSIVE AmountOver(_, _)
\* The amounts of the ledger entries at the positions S, added up.
AmountOver(l, S) ==
  IF S = {} THEN 0
  ELSE LET i == CHOOSE k \in S : TRUE
       IN l[i].amount + AmountOver(l, S \ {i})

\* The entries of one type created in month m of a year.
CreatedIn(l, year, m, type) ==
  {i \in 1 .. Len(l) : /\ l[i].type = type
                       /\ l[i].createdAt.year = year
                       /\ l[i].createdAt.month = m}

\* C11: the monthly statistics answer with a cashIn and a cashOut series of
\* exactly 12 elements; the element of month m is the sum of the amounts of
\* the year's ledger entries of that type created in month m, and 0 when the
\* month (or the whole year) has none.
C11_MonthlySeries ==
  res.op = "MonthlyStatistics" =>
    /\ Len(res.cashIn) = 12 /\ Len(res.cashOut) = 12
    /\ \A m \in 1 .. 12 :
         /\ res.cashIn[m] = AmountOver(ledger, CreatedIn(ledger, res.year, m, "cash-in"))
         /\ res.cashOut[m] = AmountOver(ledger, CreatedIn(ledger, res.year, m, "cash-out"))

\* Two cash-ins of December of the current year are on file, one of them on
\* the last day of the year: December reports their sum, every other month 0.
C11_Witness ==
  /\ res.op = "MonthlyStatistics" /\ res.year = CurrentYear
  /\ Len(ledger) = 2
  /\ \A i \in 1 .. 2 : /\ ledger[i].type = "cash-in"
                       /\ ledger[i].createdAt.year = CurrentYear
                       /\ ledger[i].createdAt.month = 12
  /\ ledger[1].createdAt.day = 31
  /\ ledger[1].amount = 1 /\ ledger[2].amount = MaxAmount
  /\ res.cashIn[12] = 1 + MaxAmount
  /\ \A m \in 1 .. 11 : res.cashIn[m] = 0
  /\ \A m \in 1 .. 12 : res.cashOut[m] = 0

\* C12: a Create Debt whose client reference resolves to no Client is
\* answered 404; it creates no debtor, appends no ledger entry and changes no
\* client's debt.
C12_CreateDebtUnknownClient ==
  [][/\ \A c \in RequestClients \ (ClientIds \cup {NoClient}), b \in CreateBodies :
          (res'.op = "CreateDebt" /\ b[1].t = "num" /\ CreateDebt(c, b[1], b[2])) =>
            res'.status = 404
     /\ Answered("CreateDebt", 404) => UNCHANGED <<debtors, ledger, clients>>]_vars

\* A debt was created for a client, then one was asked for a client that does
\* not exist: the debtor, the ledger entry and the client's debt stand as
\* they were.
C12_Witness ==
  /\ res.op = "CreateDebt" /\ res.status = 404
  /\ Len(debtors) = 1 /\ Len(ledger) = 1
  /\ debtors[1].currentDebt = MaxAmount
  /\ clients[debtors[1].client] = MaxAmount
  /\ \A c \in ClientIds : c # debtors[1].client => clients[c] = 0

\* C13: a Pay Debt on a debtor id that does not exist or is soft-deleted is
\* answered 404 and leaves every debtor, every client's debt and the ledger
\* as they were.
C13_PayDebtNotFound ==
  [][/\ \A id \in DebtorIds, pay \in JsonAmounts :
          (/\ res'.op = "PayDebt" /\ res'.id = id
           /\ pay.t = "num" /\ pay.v # 0
           /\ (id > Len(debtors) \/ debtors[id].isDeleted)
           /\ PayDebt(id, pay))
            => (res'.status = 404 /\ UNCHANGED <<debtors, clients, ledger>>)
     /\ Answered("PayDebt", 404) => UNCHANGED <<debtors, clients, ledger>>]_vars

\* A payment was refused on the only debtor, which is soft-deleted and still
\* carries its debt.
C13_Witness ==
  /\ res.op = "PayDebt" /\ res.status = 404
  /\ Len(debtors) = 1
  /\ debtors[1].isDeleted /\ debtors[1].currentDebt = MaxAmount
  /\ debtors[1].totalPaid = 0
  /\ Len(ledger) = 1

\* C14: Pay Debt answers 400 and changes nothing when the payment is missing
\* or not a number, and it accepts every payment that is a number, 0
\* included, for a debtor that exists and is not deleted.
C14_PayDebtAccepts ==
  [][\A id \in DebtorIds, pay \in JsonAmounts :
       PayDebt(id, pay) =>
         /\ pay.t # "num" =>
              (res'.status = 400 /\ UNCHANGED <<debtors, clients, ledger>>)
         /\ (pay.t = "num" /\ id <= Len(debtors) /\ ~debtors[id].isDeleted) =>
              res'.status = 200]_vars

\* C15: when the ledger append fails inside Create Debt or Pay Debt the
\* request still succeeds: the debtor is written, the client's debt is
\* updated, the answer is a success, and the ledger gains no entry.
C15_LedgerFailureSwallowed ==
  [][/\ \A c \in ClientIds, b \in CreateBodies :
          (res'.op = "CreateDebt" /\ b[1].t = "num" /\ CreateDebtWith(c, b[1], b[2], FALSE)) =>
            /\ res'.status = 201
            /\ Len(debtors') = Len(debtors) + 1
            /\ debtors'[Len(debtors')].client = c
            /\ debtors'[Len(debtors')].currentDebt = b[1].v
            /\ clients'[c] = clients[c] + b[1].v
            /\ ledger' = ledger
     /\ \A id \in DebtorIds, pay \in JsonAmounts :
          (/\ res'.op = "PayDebt" /\ res'.id = id
           /\ pay.t = "num" /\ pay.v # 0
           /\ id <= Len(debtors) /\ ~debtors[id].isDeleted
           /\ PayDebtWith(id, pay, FALSE)) =>
            /\ res'.status = 200
            /\ debtors'[id].totalPaid = debtors[id].totalPaid + pay.v
            /\ debtors'[id].lastPayment = pay.v
            /\ clients'[debtors[id].client] = clients[debtors[id].client] - pay.v
            /\ ledger' = ledger]_vars

\* A debt was created and 1 was paid on it while the database refused both
\* ledger entries: debtor and client carry both changes, the ledger is empty.
C15_Witness ==
  /\ res.op = "PayDebt" /\ res.status = 200 /\ res.amount = 1
  /\ Len(debtors) = 1 /\ ledger = <<>>
  /\ debtors[1].initialDebt = MaxAmount
  /\ debtors[1].currentDebt = MaxAmount - 1
  /\ debtors[1].totalPaid = 1
  /\ clients[debtors[1].client] = MaxAmount - 1

\* C16: totalPaid of a debtor never decreases, whatever sequence of Create
\* Debt, Pay Debt, Edit Debt and Delete Debt runs.
C16_TotalPaidMonotone ==
  [][\A i \in 1 .. Len(debtors) : debtors'[i].totalPaid >= debtors[i].totalPaid]_vars

FinancialOps == {"CreateDebt", "PayDebt", "EditDebt", "DeleteDebt", "CashIn", "CashOut"}

C18_ClientWriteFromOwnRead ==
  [][\A p \in Procs :
       (flight[p].pc \in {"saveClient", "cashSaveClient"} /\ flight'[p].pc # flight[p].pc) =>
         LET c == flight[p].client
         IN /\ clients'[c] = flight[p].debt - flight[p].payment
            /\ clients[c] # flight[p].debt => clients'[c] # clients[c] - flight[p].payment]_vars

\* Two payments of 1 on the one debtor of a client that owed MaxAmount both
\* finished and both are in the ledger; the debtor carries both, the client
\* only one: its debt is neither the serial result nor what its debtor owes.
C18_Witness ==
  /\ \A p \in Procs : /\ flight[p].pc = "done" /\ flight[p].op = "PayDebt"
                      /\ flight[p].id = 1 /\ flight[p].payment = 1
  /\ Len(debtors) = 1 /\ debtors[1].initialDebt = MaxAmount
  /\ debtors[1].totalPaid = 2
  /\ Len(ledger) = 3
  /\ clients[debtors[1].client] = MaxAmount - 1
  /\ clients[debtors[1].client] # MaxAmount - 2
  /\ clients[debtors[1].client] # OwedBy(debtors, debtors[1].client)

\* C19: Delete Debt removes no debtor record: it sets isDeleted and deletedAt
\* and leaves every other field; from then on the record never changes, and
\* every get, Pay Debt, Edit Debt and Delete Debt on it is answered 404 (a
\* Pay Debt with a payment the handler refuses: 400) and changes no debtor,
\* no client's debt and no ledger entry.
C19_SoftDeleteIsFinal ==
  [][/\ Answered("DeleteDebt", 200) =>
          /\ Len(debtors') = Len(debtors)
          /\ \A i \in 1 .. Len(debtors) :
               debtors'[i] = IF i = res'.id
                             THEN [debtors[i] EXCEPT !.isDeleted = TRUE, !.deletedAt = "set"]
                             ELSE debtors[i]
     /\ \A id \in 1 .. Len(debtors) :
          debtors[id].isDeleted =>
            /\ debtors'[id] = debtors[id]
            /\ (res'.id = id /\ res'.op \in {"GetDebtor", "PayDebt", "EditDebt", "DeleteDebt"}) =>
                 /\ res'.status = 404 \/ (res'.op = "PayDebt" /\ res'.status = 400)
                 /\ UNCHANGED <<debtors, clients, ledger>>
            /\ \A pay \in JsonAmounts :
                 (/\ res'.op = "PayDebt" /\ res'.id = id
                  /\ pay.t = "num" /\ pay.v # 0
                  /\ PayDebt(id, pay)) => res'.status = 404]_vars

\* A debtor was deleted, a second debt was created for its client, and the
\* first debtor was deleted again: the answer is 404, the record still holds
\* its currentDebt and the client's debt was not reset a second time.
C19_Witness ==
  /\ res.op = "DeleteDebt" /\ res.status = 404 /\ res.id = 1
  /\ Len(debtors) = 2
  /\ debtors[1].isDeleted /\ debtors[1].deletedAt = "set"
  /\ debtors[1].currentDebt = MaxAmount
  /\ debtors[2].client = debtors[1].client /\ ~debtors[2].isDeleted
  /\ debtors[2].currentDebt = 1
  /\ clients[debtors[1].client] = 1

\* The records of a collection whose isDeleted flag is not set.
Undeleted(l) == {i \in 1 .. Len(l) : ~l[i].isDeleted}

\* The non-deleted income entries created on day t.
IncomeOn(l, t) ==
  {i \in Undeleted(l) : l[i].type \in {"cash-in", "order", "debt-payment"} /\ l[i].createdAt = t}

\* The monthly statistics count no deleted ledger entry.
MonthlySkipsDeleted ==
  res.op = "MonthlyStatistics" =>
    \A m \in 1 .. 12 :
      /\ res.cashIn[m] =
           AmountOver(ledger, CreatedIn(ledger, res.year, m, "cash-in") \cap Undeleted(ledger))
      /\ res.cashOut[m] =
           AmountOver(ledger, CreatedIn(ledger, res.year, m, "cash-out") \cap Undeleted(ledger))

\* The income cards, the weekly chart and the debtor card of the dashboard
\* count no deleted ledger entry and no deleted debtor.
DashboardSkipsDeleted ==
  res.op = "DashboardSummary" =>
    /\ res.todayIncome = AmountOver(ledger, IncomeOn(ledger, Today))
    /\ res.monthlyIncome =
         AmountOver(ledger, UNION {IncomeOn(ledger, Date(Today.year, Today.month, d)) : d \in 1 .. 30})
    /\ \A k \in 1 .. 7 :
         res.weeklyIncome[k] = AmountOver(ledger, IncomeOn(ledger, DayBack(Today, 7 - k)))
    /\ res.debtorsCount =
         Cardinality({i \in Undeleted(debtors) : debtors[i].currentDebt > 0})
    /\ res.totalDebts =
         SumOver(debtors, {i \in Undeleted(debtors) : debtors[i].currentDebt > 0})

\* The debtor statistics count no deleted debtor.
DebtorStatsSkipDeleted ==
  res.op = "DebtorStatsSummary" =>
    /\ res.totalCurrentDebt = SumOver(debtors, Undeleted(debtors))
    /\ res.totalDebtors = Cardinality(Undeleted(debtors))
    /\ \A st \in DOMAIN res.statusCounts :
         res.statusCounts[st] =
           Cardinality({i \in Undeleted(debtors) : debtors[i].status = st})

ViewOps == {"DashboardSummary", "DebtorStatsSummary", "MonthlyStatistics", "ListTransactions"}

WithoutToken ==
  \/ /\ res'.op = "CreateDebt"
     /\ \E c \in ClientIds, b \in CreateBodies : PostDebtor(FALSE, c, b[1], b[2])
  \/ /\ res'.op = "PayDebt"
     /\ \E id \in DebtorIds, pay \in JsonAmounts : PostPayment(FALSE, id, pay)
  \/ /\ res'.op = "EditDebt"
     /\ \E id \in DebtorIds, body \in EditBodies : PatchDebtor(FALSE, id, body)
  \/ /\ res'.op = "DeleteDebt"
     /\ \E id \in DebtorIds : DeleteDebtor(FALSE, id)
  \/ /\ res'.op = "CashIn"
     /\ \E a \in CashAmounts, pt \in RequestPaymentTypes, c \in ClientIds \cup {NoClient} :
          PostCashIn(FALSE, a, pt, c)
  \/ /\ res'.op = "CashOut"
     /\ \E a \in CashAmounts, pt \in RequestPaymentTypes, c \in ClientIds \cup {NoClient} :
          PostCashOut(FALSE, a, pt, c)
  \/ /\ res'.op = "EditTransaction"
     /\ \E id \in TxIds, a \in CashAmounts, pt \in RequestPaymentTypes, c \in RequestClients :
          PutTransaction(FALSE, id, a, pt, c)
  \/ /\ res'.op = "DeleteTransaction"
     /\ \E id \in TxIds : DeleteTransactionRoute(FALSE, id)

\* C22: every endpoint that can change a client's debt, a debtor or the
\* ledger (Create, Pay, Edit, Delete Debt, cash-in, cash-out, Edit and Delete
\* Transaction) passes the authentication check before its handler runs, so a
\* request without a bearer token never changes stored state.
C22_NoWriteWithoutToken ==
  [][WithoutToken => UNCHANGED <<clients, debtors, ledger>>]_vars

\* C23: the product quick search always uses and reports a page size
\* (pagination.limit) between 1 and 50, whatever the limit query parameter
\* is: non-numeric, zero, negative or above 50.
C23_SearchLimitInRange ==
  res.op = "SearchProducts" =>
    /\ res.status = 200
    /\ res.limit.t = "num"
    /\ res.limit.v >= 1 /\ res.limit.v <= 50

\* C24 as stated: a debtor created with initialDebt defaulted to currentDebt
\* and then only paid has currentDebt = initialDebt - totalPaid after every
\* operation.
C24_DebtRelation ==
  \A i \in 1 .. Len(debtors) :
    debtors[i].currentDebt = debtors[i].initialDebt - debtors[i].totalPaid

\* C24 amended: Create Debt with initialDebt defaulted establishes
\* currentDebt = initialDebt - totalPaid; a Pay Debt of at most the debtor's
\* currentDebt preserves the relation; a Pay Debt of more than currentDebt
\* leaves currentDebt at 0, above initialDebt - totalPaid.
C24_DebtRelationUpToOverpayment ==
  [][/\ (Answered("CreateDebt", 201) /\ Len(debtors') = Len(debtors) + 1) =>
          LET d == debtors'[Len(debtors')]
          IN d.currentDebt = d.initialDebt - d.totalPaid
     /\ (Answered("PayDebt", 200) /\ res'.id \in 1 .. Len(debtors)) =>
          LET old == debtors[res'.id]
              new == debtors'[res'.id]
              held == old.currentDebt = old.initialDebt - old.totalPaid
          IN /\ (held /\ res'.amount <= old.currentDebt) =>
                   new.currentDebt = new.initialDebt - new.totalPaid
             /\ res'.amount > old.currentDebt =>
                   /\ new.currentDebt = 0
                   /\ new.currentDebt > new.initialDebt - new.totalPaid]_vars

\* A debt of MaxAmount paid down to 0 by payments of 1: the relation holds
\* with totalPaid = initialDebt.
C24_Witness ==
  /\ res.op = "PayDebt" /\ res.status = 200 /\ res.id = 1
  /\ debtors[1].initialDebt = MaxAmount
  /\ debtors[1].totalPaid = MaxAmount
  /\ debtors[1].currentDebt = 0

\* The request of handler p takes a step.
StepOf(p) == flight'[p] # flight[p]

DebtorOps == {"CreateDebt", "PayDebt"}
CashOps == {"CashIn", "CashOut"}

C26_NoCompensation ==
  [][res'.status = 500 =>
       LET c == res'.client
           id == res'.id
           a == res'.amount
       IN /\ res'.op = "CreateDebt" =>
               /\ Len(debtors') = Len(debtors) + 1 /\ id = Len(debtors')
               /\ \A i \in 1 .. Len(debtors) : debtors'[i] = debtors[i]
               /\ debtors'[id].client = c /\ debtors'[id].currentDebt = a
               /\ a >= 0 => (Len(ledger') = Len(ledger) + 1 /\ LastEntry(ledger').relatedId = id)
               /\ clients' = clients
          /\ res'.op = "PayDebt" =>
               /\ debtors'[id].totalPaid = debtors[id].totalPaid + a
               /\ debtors'[id].lastPayment = a
               /\ a >= 0 => (Len(ledger') = Len(ledger) + 1 /\ LastEntry(ledger').amount = a)
               /\ clients' = clients
          /\ res'.op = "DeleteDebt" =>
               /\ clients'[c] = 0
               /\ \A k \in ClientIds \ {c} : clients'[k] = clients[k]
               /\ debtors' = debtors /\ ~debtors'[id].isDeleted
               /\ ledger' = ledger
          /\ res'.op \in {"CashIn", "CashOut"} =>
               /\ c \in ClientIds =>
                    clients'[c] = clients[c] + (IF res'.op = "CashIn" THEN 0 - a ELSE a)
               /\ \A k \in ClientIds \ {c} : clients'[k] = clients[k]
               /\ ledger' = ledger /\ debtors' = debtors]_vars

\* A Delete Debt answered 500 that left a debtor of MaxAmount open and its
\* client's debt at 0.
C26_Witness ==
  /\ res.op = "DeleteDebt" /\ res.status = 500
  /\ ~debtors[res.id].isDeleted /\ debtors[res.id].currentDebt = MaxAmount
  /\ clients[res.client] = 0

\* C27: Create Debt, Pay Debt and Delete Debt never recompute a debtor's
\* status: a new debtor has the default status, a Pay Debt leaves the status
\* as it was (also when it brings currentDebt to 0), and the status of a
\* debtor changes only in an Edit Debt on that debtor whose body supplies it.
C27_StatusOnlyByEdit ==
  [][/\ Len(debtors') >= Len(debtors)
     /\ \A i \in 1 .. Len(debtors') :
          IF i > Len(debtors)
          THEN debtors'[i].status = "pending"
          ELSE debtors'[i].status # debtors[i].status =>
                 /\ res'.op = "EditDebt"
                 /\ \E body \in EditBodies :
                      /\ "status" \in DOMAIN body
                      /\ debtors'[i].status = body.status
                      /\ EditDebt(i, body)]_vars

\* A payment brought a debtor's currentDebt to 0 and its status is still
\* pending.
C27_Witness ==
  /\ res.op = "PayDebt" /\ res.status = 200
  /\ debtors[res.id].currentDebt = 0 /\ debtors[res.id].totalPaid = MaxAmount
  /\ debtors[res.id].status = "pending"

SignedAmount(e) ==
  IF e.type \in {"debt-created", "cash-out"} THEN e.amount
  ELSE IF e.type \in {"debt-payment", "cash-in"} THEN 0 - e.amount
  ELSE 0

RECURSIVE LedgerDerivedDebt(_, _, _)
\* The debt of client c derived from the first n entries of the ledger.
LedgerDerivedDebt(l, c, n) ==
  IF n = 0 THEN 0
  ELSE LedgerDerivedDebt(l, c, n - 1) + (IF l[n].client = c THEN SignedAmount(l[n]) ELSE 0)

C30_EditWritesMergedClientOnly ==
  [][Answered("EditDebt", 200) =>
       \A body \in MoveBodies : EditDebt(res'.id, body) =>
         LET id == res'.id
             old == debtors[id].client
             new == IF "client" \in DOMAIN body THEN body.client ELSE old
         IN /\ debtors'[id].client = new
            /\ \A k \in ClientIds \ {new} : clients'[k] = clients[k]
            /\ new \in ClientIds => clients'[new] = OwedBy(debtors', new)
            /\ (new # old /\ old \in ClientIds) =>
                 /\ clients'[old] = clients[old]
                 /\ clients[old] = OwedBy(debtors, old) =>
                      clients'[old] = OwedBy(debtors', old) + debtors[id].currentDebt]_vars

\* A debtor owing MaxAmount was moved from client 1 to client 2: both
\* clients' debts are MaxAmount and client 1 has no open debt left.
C30_Witness ==
  /\ res.op = "EditDebt" /\ res.status = 200
  /\ debtors[res.id].client = 2 /\ debtors[res.id].currentDebt = MaxAmount
  /\ clients[1] = MaxAmount /\ clients[2] = MaxAmount
  /\ OwedBy(debtors, 1) = 0

(* ---------------------------- specification ---------------------------- *)
\* The explored part of the state space: MaxDebtors debtors and MaxTx ledger
\* entries, and a bounded number of requests in one behaviour.
Within ==
  /\ Len(debtors) <= MaxDebtors
  /\ nextTx <= MaxTx + 1

Tick(max) == ops < max /\ ops' = ops + 1 /\ UNCHANGED flight

\* The debtor routes.
NextDebt ==
  \/ \E c \in RequestClients, b \in CreateBodies :
       Tick(MaxOps) /\ CreateDebt(c, b[1], b[2]) /\ Within'
  \/ \E id \in DebtorIds, pay \in JsonAmounts :
       Tick(MaxOps) /\ PayDebt(id, pay) /\ Within'
  \/ \E id \in DebtorIds, body \in EditBodies :
       Tick(MaxOps) /\ EditDebt(id, body) /\ Within'
  \/ \E id \in DebtorIds :
       Tick(MaxOps) /\ DeleteDebt(id) /\ Within'

SpecDebt == Init /\ [][NextDebt]_vars

\* The transaction routes, with debts created beside them.
NextCash ==
  \/ \E c \in ClientIds :
       Tick(MaxCashOps) /\ CreateDebt(c, Num(1), Absent) /\ Within'
  \/ \E a \in CashAmounts, pt \in RequestPaymentTypes, c \in ClientIds \cup {NoClient} :
       Tick(MaxCashOps) /\ CashIn(a, pt, c) /\ Within'
  \/ \E a \in CashAmounts, pt \in RequestPaymentTypes, c \in ClientIds \cup {NoClient} :
       Tick(MaxCashOps) /\ CashOut(a, pt, c) /\ Within'
  \/ \E id \in TxIds, a \in CashAmounts, pt \in RequestPaymentTypes, c \in RequestClients :
       Tick(MaxCashOps) /\ EditTransaction(id, a, pt, c) /\ Within'
  \/ \E id \in TxIds :
       Tick(MaxCashOps) /\ DeleteTransaction(id) /\ Within'

SpecCash == Init /\ [][NextCash]_vars
\* The reports, asked for over a ledger or a debtor collection on file.
InitStats ==
  /\ clients = [c \in ClientIds |-> 0]
  /\ \/ /\ \E n \in 0 .. MaxStatEntries : \E shapes \in [1 .. n -> EntryShapes] :
             ledger = StoredLedger(shapes)
        /\ debtors = <<>>
     \/ /\ ledger = <<>>
        /\ \E n \in 1 .. MaxDebtors : \E shapes \in [1 .. n -> DebtorShapes] :
             debtors = StoredDebtors(shapes)
  /\ nextTx = Len(ledger) + 1
  /\ res = Response("none", 0, 0, NoClient, 0)
  /\ ops = 0
  /\ flight = [p \in Procs |-> Idle]

NextStats ==
  \/ \E q \in YearQueries : MonthlyStatistics(q) /\ UNCHANGED ops
  \/ DashboardSummary /\ UNCHANGED ops
  \/ DebtorStatsSummary /\ UNCHANGED ops

SpecStats == InitStats /\ [][NextStats]_vars
\* The debtor routes that write the ledger, over a database that may refuse
\* an entry.
NextFault ==
  \/ \E c \in RequestClients, b \in CreateBodies, stored \in BOOLEAN :
       Tick(MaxFaultOps) /\ CreateDebtWith(c, b[1], b[2], stored) /\ Within'
  \/ \E id \in DebtorIds, pay \in JsonAmounts, stored \in BOOLEAN :
       Tick(MaxFaultOps) /\ PayDebtWith(id, pay, stored) /\ Within'

SpecFault == Init /\ [][NextFault]_vars
\* The six financial handlers together.
NextAll ==
  \/ \E c \in RequestClients, b \in CreateBodies :
       Tick(MaxAllOps) /\ CreateDebt(c, b[1], b[2]) /\ Within'
  \/ \E id \in DebtorIds, pay \in JsonAmounts :
       Tick(MaxAllOps) /\ PayDebt(id, pay) /\ Within'
  \/ \E id \in DebtorIds, body \in EditBodies :
       Tick(MaxAllOps) /\ EditDebt(id, body) /\ Within'
  \/ \E id \in DebtorIds :
       Tick(MaxAllOps) /\ DeleteDebt(id) /\ Within'
  \/ \E a \in CashAmounts, pt \in RequestPaymentTypes, c \in ClientIds \cup {NoClient} :
       Tick(MaxAllOps) /\ CashIn(a, pt, c) /\ Within'
  \/ \E a \in CashAmounts, pt \in RequestPaymentTypes, c \in ClientIds \cup {NoClient} :
       Tick(MaxAllOps) /\ CashOut(a, pt, c) /\ Within'

SpecAll == Init /\ [][NextAll]_vars
\* Two requests that may overlap, on debts created beforehand.
NextRace ==
  \/ \E c \in ClientIds :
       /\ \A p \in Procs : flight[p].pc = "idle"
       /\ Tick(MaxRaceOps) /\ CreateDebt(c, Num(MaxAmount), Absent) /\ Within'
  \/ \E p \in Procs, id \in DebtorIds, pay \in {Num(1), Num(MaxAmount)} : StartPay(p, id, pay)
  \/ \E p \in Procs : PayFindDebtor(p)
  \/ \E p \in Procs : PaySaveDebtor(p)
  \/ \E p \in Procs : PayCreateEntry(p)
  \/ \E p \in Procs : PayFindClient(p)
  \/ \E p \in Procs : PaySaveClient(p)
  \/ \E p \in Procs : PayRespond(p)
  \/ \E p \in Procs, c \in ClientIds : StartCashIn(p, Num(1), c)
  \/ \E p \in Procs : CashFindClient(p)
  \/ \E p \in Procs : CashSaveClient(p)
  \/ \E p \in Procs : CashCreate(p)

SpecRace == Init /\ [][NextRace]_vars
\* The debtor routes with the read of one debtor.
NextRead ==
  \/ NextDebt
  \/ \E id \in DebtorIds : Tick(MaxOps) /\ GetDebtor(id)

SpecRead == Init /\ [][NextRead]_vars
\* The reporting views, called one after the other over stored collections.
InitViews ==
  /\ clients = [c \in ClientIds |-> 0]
  /\ \/ /\ \E n \in 0 .. MaxViewEntries : \E shapes \in [1 .. n -> EntryShapes] :
             ledger = StoredLedger(shapes)
        /\ debtors = <<>>
     \/ /\ ledger = <<>>
        /\ \E n \in 1 .. MaxViewEntries : \E shapes \in [1 .. n -> DebtorShapes] :
             debtors = StoredDebtors(shapes)
  /\ nextTx = Len(ledger) + 1
  /\ res = Response("none", 0, 0, NoClient, 0)
  /\ ops = 0
  /\ flight = [p \in Procs |-> Idle]

NextViews ==
  \/ \E q \in YearQueries : Tick(MaxViewOps) /\ MonthlyStatistics(q)
  \/ Tick(MaxViewOps) /\ DashboardSummary
  \/ Tick(MaxViewOps) /\ DebtorStatsSummary
  \/ Tick(MaxViewOps) /\ ListTransactions

SpecViews == InitViews /\ [][NextViews]_vars
\* All routes that write, called with or without a bearer token.
NextAuth ==
  \/ \E token \in BOOLEAN, c \in ClientIds, b \in CreateBodies :
       Tick(MaxAuthOps) /\ PostDebtor(token, c, b[1], b[2]) /\ Within'
  \/ \E token \in BOOLEAN, id \in DebtorIds, pay \in JsonAmounts :
       Tick(MaxAuthOps) /\ PostPayment(token, id, pay) /\ Within'
  \/ \E token \in BOOLEAN, id \in DebtorIds, body \in EditBodies :
       Tick(MaxAuthOps) /\ PatchDebtor(token, id, body) /\ Within'
  \/ \E token \in BOOLEAN, id \in DebtorIds :
       Tick(MaxAuthOps) /\ DeleteDebtor(token, id) /\ Within'
  \/ \E token \in BOOLEAN, a \in CashAmounts, pt \in RequestPaymentTypes,
        c \in ClientIds \cup {NoClient} :
       Tick(MaxAuthOps) /\ PostCashIn(token, a, pt, c) /\ Within'
  \/ \E token \in BOOLEAN, a \in CashAmounts, pt \in RequestPaymentTypes,
        c \in ClientIds \cup {NoClient} :
       Tick(MaxAuthOps) /\ PostCashOut(token, a, pt, c) /\ Within'
  \/ \E token \in BOOLEAN, id \in TxIds, a \in CashAmounts, pt \in RequestPaymentTypes,
        c \in RequestClients :
       Tick(MaxAuthOps) /\ PutTransaction(token, id, a, pt, c) /\ Within'
  \/ \E token \in BOOLEAN, id \in TxIds :
       Tick(MaxAuthOps) /\ DeleteTransactionRoute(token, id) /\ Within'

SpecAuth == Init /\ [][NextAuth]_vars
\* The product quick search over its query parameters.
NextSearch ==
  \E limit \in LimitQueries, page \in PageQueries, totalCount \in 0 .. MaxProducts,
     refused \in BOOLEAN :
    SearchProducts(limit, page, totalCount, refused) /\ UNCHANGED ops

SpecSearch == Init /\ [][NextSearch]_vars
\* One debtor history of a Create Debt with initialDebt defaulted and Pay
\* Debt operations only.
NextPay ==
  \/ \E c \in RequestClients, cd \in JsonAmounts :
       Tick(MaxPayOps) /\ CreateDebt(c, cd, Absent) /\ Within'
  \/ \E id \in DebtorIds, pay \in JsonAmounts :
       Tick(MaxPayOps) /\ PayDebt(id, pay) /\ Within'

SpecPay == Init /\ [][NextPay]_vars
\* The four Financial Operation Handlers, one `await` at a time.
NextOrder ==
  \/ NextRace
  \/ \E p \in Procs, c \in ClientIds, cd \in {Num(0 - 1), Num(MaxAmount)} : StartCreate(p, c, cd)
  \/ \E p \in Procs : CreateFindClient(p) /\ Within'
  \/ \E p \in Procs : CreateSaveDebtor(p) /\ Within'
  \/ \E p \in Procs : CreateEntry(p) /\ Within'
  \/ \E p \in Procs : CreateReadClient(p)
  \/ \E p \in Procs : CreateSaveClient(p)
  \/ \E p \in Procs : CreateRespond(p)
  \/ \E p \in Procs, c \in ClientIds : StartCashOut(p, Num(1), c)

SpecOrder == Init /\ [][NextOrder]_vars
\* The financial handlers over a database whose later write may throw.
NextPartial ==
  \/ \E c \in ClientIds, n \in {0 - 1, MaxAmount} :
       Tick(MaxPartialOps) /\ CreateDebt(c, Num(n), Absent) /\ Within'
  \/ \E c \in ClientIds \cup {GhostClient}, n \in {0 - 1, MaxAmount} :
       Tick(MaxPartialOps) /\ CreateDebtClientSaveFails(c, Num(n), Absent) /\ Within'
  \/ \E id \in DebtorIds, pay \in {Num(0 - 1), Num(0), Num(1), Num(MaxAmount)} :
       Tick(MaxPartialOps) /\ PayDebtClientSaveFails(id, pay) /\ Within'
  \/ \E id \in DebtorIds : Tick(MaxPartialOps) /\ DeleteDebtSaveFails(id)
  \/ \E pt \in RequestPaymentTypes, c \in ClientIds \cup {NoClient} :
       Tick(MaxPartialOps) /\ CashIn(Num(1), pt, c) /\ Within'
  \/ \E pt \in RequestPaymentTypes, c \in ClientIds \cup {NoClient} :
       Tick(MaxPartialOps) /\ CashOut(Num(1), pt, c) /\ Within'

SpecPartial == Init /\ [][NextPartial]_vars
\* Debts created with a non-negative amount and paid without overpayment.
NextSettle ==
  \/ \E c \in ClientIds, n \in 0 .. MaxAmount :
       /\ Tick(MaxSettleOps) /\ CreateDebt(c, Num(n), Absent)
       /\ Len(debtors') <= MaxDebtors
  \/ \E id \in DebtorIds, n \in 1 .. MaxAmount :
       /\ FindDebtor(id) /\ n <= debtors[id].currentDebt
       /\ Tick(MaxSettleOps) /\ PayDebt(id, Num(n))

SpecSettle == Init /\ [][NextSettle]_vars
\* The four handlers that append to the ledger, over a database that takes
\* every entry: a request whose entry would be refused is left out.
AppendSucceeded == res'.status \in {400, 404} \/ Len(ledger') = Len(ledger) + 1

NextLedger ==
  \/ \E c \in RequestClients, n \in Amounts :
       /\ Tick(MaxLedgerOps) /\ CreateDebt(c, Num(n), Absent)
       /\ Len(debtors') <= MaxDebtors /\ AppendSucceeded
  \/ \E id \in DebtorIds, pay \in JsonAmounts :
       Tick(MaxLedgerOps) /\ PayDebt(id, pay) /\ AppendSucceeded
  \/ \E amt \in CashAmounts, pt \in RequestPaymentTypes, c \in RequestClients :
       Tick(MaxLedgerOps) /\ CashIn(amt, pt, c) /\ AppendSucceeded
  \/ \E amt \in CashAmounts, pt \in RequestPaymentTypes, c \in RequestClients :
       Tick(MaxLedgerOps) /\ CashOut(amt, pt, c) /\ AppendSucceeded

SpecLedger == Init /\ [][NextLedger]_vars
\* Debts created, paid and edited, the edits moving debtors between clients.
NextMove ==
  \/ \E c \in ClientIds, n \in {1, MaxAmount} :
       Tick(MaxMoveOps) /\ CreateDebt(c, Num(n), Absent) /\ Within'
  \/ \E id \in DebtorIds, n \in {1, MaxAmount} :
       Tick(MaxMoveOps) /\ PayDebt(id, Num(n)) /\ Within'
  \/ \E id \in DebtorIds, body \in MoveBodies :
       Tick(MaxMoveOps) /\ EditDebt(id, body) /\ Within'

SpecMove == Init /\ [][NextMove]_vars
====
